---- MODULE Spec2Model ----
(***************************************************************************)
(* Request lifecycle of the SRP management system: the srp_requests rows,  *)
(* the srp_process_log audit table and the DatabaseStorage operations that *)
(* write them inside db.transaction (createSrpRequest, reviewSrpRequest,   *)
(* markSrpRequestPaid), plus the reads derived from them (getSrpRequest,   *)
(* getDashboardStats, with the clock that stamps the audit entries), the   *)
(* unguarded updateSrpRequest, the srpLimitsService tier table, and the    *)
(* request schemas in front of the payout calculation and of submit.       *)
(*                                                                         *)
(* The store is PostgreSQL reached through drizzle: a transaction's writes *)
(* become visible to others at COMMIT, an UPDATE takes the row lock of the *)
(* row it matches and a second UPDATE of the same row waits for it.        *)
(* srpRequests and srpProcessLog are the COMMITTED tables; tx holds each   *)
(* caller's transaction in flight.                                         *)
(***************************************************************************)
EXTENDS Integers, Sequences, FiniteSets, TLC

\* ---- bounds -------------------------------------------------------------
MaxReq == 2        \* request ids 1..MaxReq
MaxLog == 4        \* audit entries, when every operation runs alone
MaxTxLog == 3      \* audit entries, when transactions interleave
MaxPayout == 2     \* payout arguments 0..MaxPayout
MaxTiers == 2      \* tiers in one srpLimits.json
MaxClock == 3      \* hours the clock advances
MaxClockLog == 3   \* audit entries, when the clock advances

\* ---- values -------------------------------------------------------------
Clients == {"c1", "c2"}          \* callers: seatUserId / main character name
NULL == -1                       \* SQL NULL in the integer column payoutAmount
Undefined == -2                  \* an omitted optional number argument
NullNote == "<null>"             \* SQL NULL in the text column note
UndefinedNote == "<undefined>"   \* an omitted optional string argument

ReqIds == 1..MaxReq
ReviewStatuses == {"approved", "denied", "processing"}
PayoutArgs == {Undefined} \cup (0..MaxPayout)
NoteArgs == {UndefinedNote, ""}   \* note arguments: omitted, or left empty

\* ---- values of the tier table ---------------------------------------------
Classes == {"Frigate", "Cruiser"}        \* ship group names
TierNames == <<"T1", "T2", "T3", "T4">>  \* the name of the i-th tier of a file
Caps == {0, 100}                         \* maxPayout values
NullName == "<no tier>"                  \* the null getTierName returns

\* the SrpTier objects a file can hold in position i: `classes` is an array
\* of group names, or is missing (not iterable)
TiersAt(i) ==
    {[name |-> TierNames[i], maxPayout |-> cap, classes |-> cs, iterable |-> TRUE] :
        cap \in Caps, cs \in (SUBSET Classes) \ {{}}}
    \cup {[name |-> TierNames[i], maxPayout |-> 0, classes |-> {}, iterable |-> FALSE]}

TierLists ==
    UNION {{ts \in [1..n -> UNION {TiersAt(i) : i \in 1..n}] :
               \A i \in 1..n : ts[i] \in TiersAt(i)} : n \in 0..MaxTiers}

\* what JSON.parse can give: null, an object without a `tiers` array, or an
\* SrpLimitsData object
JsonNull == [kind |-> "null", tiers |-> <<>>]
JsonNoTiers == [kind |-> "object", tiers |-> <<>>]
JsonValues ==
    {JsonNull, JsonNoTiers} \cup {[kind |-> "config", tiers |-> ts] : ts \in TierLists}

\* what initialize can find at limitsPath: no file, text that is not JSON,
\* or the text of a JSON value
NoFile == [exists |-> FALSE, json |-> FALSE, value |-> JsonNull]
NotJson == [exists |-> TRUE, json |-> FALSE, value |-> JsonNull]
LimitsFiles ==
    {NoFile, NotJson} \cup {[exists |-> TRUE, json |-> TRUE, value |-> v] : v \in JsonValues}

\* srpRequests    committed rows: id -> [seatUserId, status, payoutAmount,
\*                estimatedPayout]
\* srpProcessLog  committed audit entries, in insertion order
\* tx             each caller's transaction in flight
\* now            the clock that stamps occurredAt, in hours; it stands still
\*                in the behaviours of Spec and SpecTx
\* ret            what the call that ended last gave its caller: the row,
\*                undefined, or a thrown error
\* limitsFile     what server/staticData/srpLimits.json held when initialize
\*                last looked
\* limitsData, classToMaxPayout, classToTier
\*                the fields of the srpLimitsService singleton
\* body           the body of the request received last
\* response       the response to the calculation requested last
VARIABLES srpRequests, srpProcessLog, tx, now, ret,
          limitsFile, limitsData, classToMaxPayout, classToTier,
          body, response

limitsVars == <<limitsFile, limitsData, classToMaxPayout, classToTier>>
webVars == <<body, response>>

vars == <<srpRequests, srpProcessLog, tx, now, ret,
          limitsFile, limitsData, classToMaxPayout, classToTier,
          body, response>>

HoursPerDay == 24     \* today.setHours(0, 0, 0, 0): a day of the clock

\* no request received, no calculation made
NoBody == [kind |-> "none"]
NoResponse == [kind |-> "none"]

\* ---- helpers ------------------------------------------------------------
\* `payout || null`: undefined and 0 are falsy
PayoutOrNull(payout) == IF payout = Undefined \/ payout = 0 THEN NULL ELSE payout

\* `note || null`: undefined and "" are falsy
NoteOrNull(note) == IF note = UndefinedNote \/ note = "" THEN NullNote ELSE note

\* a transaction that is not running
IdleTx == [pc |-> "idle", op |-> "none", id |-> 0, status |-> "none",
           payoutAmount |-> NULL, processType |-> "none", note |-> NullNote,
           seen |-> "none"]

\* ---- the statements of the three transactions ---------------------------
\* createSrpRequest logging the row's status as the entry's processType
CreateTx_StatusAsKind(id) ==
    [IdleTx EXCEPT !.op = "create", !.id = id, !.status = "pending",
                   !.processType = "pending"]

\* createSrpRequest: .values({...data, seatUserId, status: "pending"}) and
\* the `created` entry
CreateTx(id) ==
    [IdleTx EXCEPT !.op = "create", !.id = id, !.status = "pending",
                   !.processType = "created"]

\* reviewSrpRequest: .set({status, payoutAmount: payout || null}) and the
\* entry {processType: status, note: note || null}
ReviewTx(id, status, note, payout) ==
    [IdleTx EXCEPT !.op = "review", !.id = id, !.status = status,
                   !.payoutAmount = PayoutOrNull(payout),
                   !.processType = status, !.note = NoteOrNull(note)]

\* markSrpRequestPaid: .set({status: "approved"}) and the `paid` entry
PaidTx(id) ==
    [IdleTx EXCEPT !.op = "paid", !.id = id, !.status = "approved",
                   !.processType = "paid"]

\* a markSrpRequestPaid whose .set also names payoutAmount
WrittenRow_PaidResetsPayout(c, t) ==
    IF t.op = "create"
    THEN [seatUserId |-> c, status |-> t.status, payoutAmount |-> NULL,
          estimatedPayout |-> NULL]
    ELSE [srpRequests[t.id] EXCEPT !.status = t.status,
                                   !.payoutAmount = t.payoutAmount]

\* the row a transaction t of caller c writes
WrittenRow(c, t) ==
    IF t.op = "create"
    THEN [seatUserId |-> c, status |-> t.status, payoutAmount |-> NULL,
          estimatedPayout |-> NULL]
    ELSE IF t.op = "paid"
    THEN [srpRequests[t.id] EXCEPT !.status = t.status]
    ELSE [srpRequests[t.id] EXCEPT !.status = t.status,
                                   !.payoutAmount = t.payoutAmount]

\* the audit entry a transaction t of caller c inserts
LogEntry(c, t) ==
    [srpRequestId |-> t.id, processType |-> t.processType,
     byMainChar |-> c, note |-> t.note, occurredAt |-> now]

\* an UPDATE without its WHERE: every row takes the status
CommittedRows_NoWhere(c, t) ==
    [i \in (DOMAIN srpRequests) \cup {t.id} |->
        IF i = t.id THEN WrittenRow(c, t)
        ELSE [srpRequests[i] EXCEPT !.status = t.status]]

\* the tables once transaction t of caller c has committed
CommittedRows(c, t) ==
    [i \in (DOMAIN srpRequests) \cup {t.id} |->
        IF i = t.id THEN WrittenRow(c, t) ELSE srpRequests[i]]

\* an insert that replaces the request's entry of the same processType
CommittedLog_Upsert(c, t) ==
    LET same == {i \in 1..Len(srpProcessLog) :
                   /\ srpProcessLog[i].srpRequestId = t.id
                   /\ srpProcessLog[i].processType = t.processType}
    IN IF same = {} THEN Append(srpProcessLog, LogEntry(c, t))
       ELSE [i \in 1..Len(srpProcessLog) |->
               IF i \in same THEN LogEntry(c, t) ELSE srpProcessLog[i]]

CommittedLog(c, t) == Append(srpProcessLog, LogEntry(c, t))

\* a row write issued on db instead of tx: the rollback does not undo it
RolledBackRows_NotUndone(c, t) == CommittedRows(c, t)

\* the tables once transaction t of caller c has rolled back
RolledBackRows(c, t) == srpRequests

RolledBackLog(c, t) == srpProcessLog

\* ---- initial state ------------------------------------------------------
Init ==
    /\ srpRequests = <<>>
    /\ srpProcessLog = <<>>
    /\ tx = [c \in Clients |-> IdleTx]
    /\ now = HoursPerDay - 2
    /\ ret = "none"
    /\ limitsFile = NoFile
    /\ limitsData = JsonNull
    /\ classToMaxPayout = <<>>
    /\ classToTier = <<>>
    /\ body = NoBody
    /\ response = NoResponse

\* ---- the operations, each running alone ---------------------------------
\* db.transaction(...) to its end: both writes commit and the row is
\* returned, or a statement throws and both are rolled back
RunTx(c, t) ==
    /\ \/ /\ srpRequests' = CommittedRows(c, t)
          /\ srpProcessLog' = CommittedLog(c, t)
          /\ ret' = "row"
       \/ /\ srpRequests' = RolledBackRows(c, t)
          /\ srpProcessLog' = RolledBackLog(c, t)
          /\ ret' = "throw"
    /\ UNCHANGED <<tx, now, limitsVars>>

\* `if (!updated) return undefined`: the UPDATE matched no row
ReturnUndefined ==
    /\ ret' = "undefined"
    /\ UNCHANGED <<srpRequests, srpProcessLog, tx, now, limitsVars>>

\* gen_random_uuid(): an id no committed or in-flight row has
FreeIds == {i \in ReqIds : i \notin DOMAIN srpRequests
                /\ \A d \in Clients : ~(tx[d].pc # "idle" /\ tx[d].id = i)}

NewId == CHOOSE i \in FreeIds : \A j \in FreeIds : i <= j

createSrpRequest(c) ==
    /\ Len(srpProcessLog) < MaxLog
    /\ FreeIds # {}
    /\ RunTx(c, CreateTx(NewId))
    /\ UNCHANGED webVars

reviewSrpRequest(c, id, status, note, payout) ==
    /\ Len(srpProcessLog) < MaxLog
    /\ IF id \in DOMAIN srpRequests
       THEN RunTx(c, ReviewTx(id, status, note, payout))
       ELSE ReturnUndefined
    /\ UNCHANGED webVars

markSrpRequestPaid(c, id) ==
    /\ Len(srpProcessLog) < MaxLog
    /\ IF id \in DOMAIN srpRequests
       THEN RunTx(c, PaidTx(id))
       ELSE ReturnUndefined
    /\ UNCHANGED webVars

Next ==
    \/ \E c \in Clients : createSrpRequest(c)
    \/ \E c \in Clients, id \in ReqIds, status \in ReviewStatuses,
          note \in NoteArgs, payout \in PayoutArgs :
            reviewSrpRequest(c, id, status, note, payout)
    \/ \E c \in Clients, id \in ReqIds : markSrpRequestPaid(c, id)

Spec == Init /\ [][Next]_vars

\* ---- the operations, interleaved ----------------------------------------
\* the row lock of request id is held by a transaction other than c's
LockedByOther(c, id) ==
    \E d \in Clients \ {c} : tx[d].pc = "updated" /\ tx[d].id = id

\* audit entries still to be written by transactions in flight
InFlight == Cardinality({c \in Clients : tx[c].pc # "idle"})

HasRoom == Len(srpProcessLog) + InFlight < MaxTxLog

\* the first statement of createSrpRequest: the INSERT of the row
createSrpRequest_Insert(c) ==
    /\ tx[c].pc = "idle"
    /\ HasRoom
    /\ FreeIds # {}
    /\ tx' = [tx EXCEPT ![c] = [CreateTx(NewId) EXCEPT !.pc = "updated"]]
    /\ UNCHANGED <<srpRequests, srpProcessLog, now, ret,
                   limitsVars, webVars>>

\* the first statement of reviewSrpRequest or markSrpRequestPaid: the UPDATE
\* takes the row lock, waits for it, or matches no row
Update(c, t) ==
    /\ tx[c].pc = "idle"
    /\ HasRoom
    /\ IF t.id \notin DOMAIN srpRequests
       THEN ReturnUndefined /\ UNCHANGED webVars
       ELSE /\ tx' = [tx EXCEPT ![c] =
                  [t EXCEPT !.pc = IF LockedByOther(c, t.id)
                                   THEN "waiting" ELSE "updated",
                            !.seen = srpRequests[t.id].status]]
            /\ UNCHANGED <<srpRequests, srpProcessLog, now, ret,
                   limitsVars, webVars>>

reviewSrpRequest_Update(c, id, status, note, payout) ==
    Update(c, ReviewTx(id, status, note, payout))

markSrpRequestPaid_Update(c, id) ==
    Update(c, PaidTx(id))

\* a waiting UPDATE proceeds once the row lock is released
LockGranted(c) ==
    /\ tx[c].pc = "waiting"
    /\ ~LockedByOther(c, tx[c].id)
    /\ tx' = [tx EXCEPT ![c].pc = "updated"]
    /\ UNCHANGED <<srpRequests, srpProcessLog, now, ret,
                   limitsVars, webVars>>

\* the second statement, the INSERT of the audit entry, and the COMMIT
InsertLogAndCommit(c) ==
    /\ tx[c].pc = "updated"
    /\ srpRequests' = CommittedRows(c, tx[c])
    /\ srpProcessLog' = CommittedLog(c, tx[c])
    /\ tx' = [tx EXCEPT ![c] = IdleTx]
    /\ ret' = "row"
    /\ UNCHANGED <<now, limitsVars, webVars>>

\* the INSERT throws or the caller goes away: db.transaction rolls back
Rollback(c) ==
    /\ tx[c].pc \in {"updated", "waiting"}
    /\ srpRequests' = RolledBackRows(c, tx[c])
    /\ srpProcessLog' = RolledBackLog(c, tx[c])
    /\ tx' = [tx EXCEPT ![c] = IdleTx]
    /\ ret' = "throw"
    /\ UNCHANGED <<now, limitsVars, webVars>>

NextTx ==
    \/ \E c \in Clients : createSrpRequest_Insert(c)
    \/ \E c \in Clients, id \in ReqIds, status \in ReviewStatuses,
          note \in NoteArgs, payout \in PayoutArgs :
            reviewSrpRequest_Update(c, id, status, note, payout)
    \/ \E c \in Clients, id \in ReqIds : markSrpRequestPaid_Update(c, id)
    \/ \E c \in Clients : LockGranted(c)
    \/ \E c \in Clients : InsertLogAndCommit(c)
    \/ \E c \in Clients : Rollback(c)

SpecTx == Init /\ [][NextTx]_vars

\* ---- reads -------------------------------------------------------------
\* .from(srpProcessLog).where(eq(srpProcessLog.srpRequestId, id))
LogsOf(id) == SelectSeq(srpProcessLog, LAMBDA e : e.srpRequestId = id)

\* .orderBy(desc(srpProcessLog.occurredAt)): every arrangement of s with
\* non-increasing occurredAt; SQL leaves the order of equal keys open
OrderByDesc(s) ==
    LET n == Len(s)
        perms == {p \in [1..n -> 1..n] :
                    /\ \A i, j \in 1..n : i # j => p[i] # p[j]
                    /\ \A i, j \in 1..n :
                          i < j => s[p[i]].occurredAt >= s[p[j]].occurredAt}
    IN {[i \in 1..n |-> s[p[i]]] : p \in perms}

\* the sequences getSrpProcessLogs(id) can return
getSrpProcessLogs(id) == OrderByDesc(LogsOf(id))

\* the createdAt values getSrpRequests can derive for request id:
\* logs.find(l => l.processType === "created")?.occurredAt || null
createdAt(id) ==
    {LET found == {i \in DOMAIN l : l[i].processType = "created"}
     IN IF found = {} THEN NULL
        ELSE l[CHOOSE i \in found : \A j \in found : i <= j].occurredAt :
       l \in getSrpProcessLogs(id)}

\* the values getSrpRequest(id) can return; {} stands for undefined
getSrpRequest(id) ==
    IF id \notin DOMAIN srpRequests THEN {}
    ELSE {[seatUserId |-> srpRequests[id].seatUserId,
           status |-> srpRequests[id].status,
           payoutAmount |-> srpRequests[id].payoutAmount,
           processLogs |-> l] : l \in OrderByDesc(LogsOf(id))}

\* select srpRequestId from srpProcessLog where processType = 'paid'
paidRequestIds ==
    {srpProcessLog[i].srpRequestId : i \in
        {j \in 1..Len(srpProcessLog) : srpProcessLog[j].processType = "paid"}}

\* SUM(payoutAmount) over the rows ids: NULLs are skipped
RECURSIVE SumPayout(_)
SumPayout(ids) ==
    IF ids = {} THEN 0
    ELSE LET id == CHOOSE i \in ids : TRUE
             p == srpRequests[id].payoutAmount
         IN (IF p = NULL THEN 0 ELSE p) + SumPayout(ids \ {id})

\* getDashboardStats(seatUserId).totalPaidOut
totalPaidOut(seatUserId) ==
    SumPayout({id \in DOMAIN srpRequests :
                 /\ srpRequests[id].seatUserId = seatUserId
                 /\ srpRequests[id].status = "approved"
                 /\ id \in paidRequestIds})

\* ---- srpLimitsService ----------------------------------------------------
\* Map.prototype.clear
Cleared_Kept(m) == m

Cleared(m) == <<>>

\* a set that leaves the keys already present as they are
MapSet_KeepFirst(m, ks, v) ==
    [k \in (DOMAIN m) \cup ks |-> IF k \in DOMAIN m THEN m[k] ELSE v]

\* Map.prototype.set of every key in ks to v
MapSet(m, ks, v) ==
    [k \in (DOMAIN m) \cup ks |-> IF k \in ks THEN v ELSE m[k]]

\* Map.prototype.get
MapGet(m, k, undefined) == IF k \in DOMAIN m THEN m[k] ELSE undefined

\* the loop over limitsData.tiers from the maps caps and names on: it runs
\* to the end, or `for (const className of tier.classes)` throws TypeError
RECURSIVE LoopTiers(_, _, _)
LoopTiers(tiers, caps, names) ==
    IF tiers = <<>>
    THEN [classToMaxPayout |-> caps, classToTier |-> names, ret |-> "ok"]
    ELSE LET tier == Head(tiers)
         IN IF ~tier.iterable
            THEN [classToMaxPayout |-> caps, classToTier |-> names,
                  ret |-> "TypeError"]
            ELSE LoopTiers(Tail(tiers),
                           MapSet(caps, tier.classes, tier.maxPayout),
                           MapSet(names, tier.classes, tier.name))

\* the fields of the service and the outcome of initialize() when it finds
\* file and the fields are data, caps, names
Initialized(file, data, caps, names) ==
    IF ~file.exists
    THEN [limitsData |-> data, classToMaxPayout |-> caps,
          classToTier |-> names, ret |-> "ok"]
    ELSE IF ~file.json
    THEN [limitsData |-> data, classToMaxPayout |-> caps,
          classToTier |-> names, ret |-> "SyntaxError"]
    ELSE IF file.value.kind # "config"
    THEN [limitsData |-> file.value, classToMaxPayout |-> Cleared(caps),
          classToTier |-> Cleared(names), ret |-> "TypeError"]
    ELSE [limitsData |-> file.value]
         @@ LoopTiers(file.value.tiers, Cleared(caps), Cleared(names))

initialize(file) ==
    LET r == Initialized(file, limitsData, classToMaxPayout, classToTier)
    IN /\ limitsFile' = file
       /\ limitsData' = r.limitsData
       /\ classToMaxPayout' = r.classToMaxPayout
       /\ classToTier' = r.classToTier
       /\ ret' = r.ret
       /\ UNCHANGED <<srpRequests, srpProcessLog, tx, now, webVars>>

\* `?? null` lets only undefined and null through to null
getSoloMaxPayout_Falsy(groupName) ==
    LET v == MapGet(classToMaxPayout, groupName, Undefined)
    IN IF v = Undefined \/ v = 0 THEN NULL ELSE v

getSoloMaxPayout(groupName) ==
    LET v == MapGet(classToMaxPayout, groupName, Undefined)
    IN IF v = Undefined THEN NULL ELSE v

getTierName(groupName) ==
    LET v == MapGet(classToTier, groupName, UndefinedNote)
    IN IF v = UndefinedNote THEN NullName ELSE v

isLoaded == limitsData # JsonNull

NextLimits == \E file \in LimitsFiles : initialize(file)

SpecLimits == Init /\ [][NextLimits]_vars

\* ---- payout calculation -------------------------------------------------
IskValues == {-1, 1, 80, 300}                    \* iskValue of a body
OperationTypes == {"solo", "fleet", "wing"}      \* the enum's values, and another
GroupNames == Classes \cup {"Titan", UndefinedNote}   \* listed, unlisted, omitted

CalculateBodies ==
    {[kind |-> "calculate", iskValue |-> v, operationType |-> op,
      isSpecialRole |-> sp, groupName |-> g] :
        v \in IskValues, op \in OperationTypes, sp \in BOOLEAN, g \in GroupNames}

\* srpCalculateSchema.safeParse(b).success: iskValue is z.number(), with no
\* minimum; operationType is z.enum(["solo", "fleet"])
srpCalculateSchema(b) ==
    /\ b.iskValue \in Int
    /\ b.operationType \in {"solo", "fleet"}

\* the multipliers, in percent
SoloPercent == 50
FleetPercent == 100
SpecialRolePercent == 120

operationMultiplier(operationType) ==
    IF operationType = "solo" THEN SoloPercent ELSE FleetPercent

specialRoleBonus(isSpecialRole) ==
    IF isSpecialRole THEN SpecialRolePercent ELSE 100

\* the cap of the body's group: null when the group is omitted or unlisted
CapOf(b) ==
    IF b.groupName = UndefinedNote THEN NULL ELSE getSoloMaxPayout(b.groupName)

\* a calculation that applies no cap
calculatePayout_Uncapped(b) ==
    LET mult == operationMultiplier(b.operationType)
        amount == (b.iskValue * mult * specialRoleBonus(b.isSpecialRole)) \div (100 * 100)
    IN [kind |-> "result", estimatedPayout |-> amount,
        breakdown |-> [baseValue |-> b.iskValue, operationMultiplier |-> mult,
                       isSpecialRole |-> b.isSpecialRole, finalAmount |-> amount,
                       maxPayout |-> CapOf(b)]]

\* base * multipliers rounded down, then the cap when there is one
calculatePayout(b) ==
    LET mult == operationMultiplier(b.operationType)
        amount == (b.iskValue * mult * specialRoleBonus(b.isSpecialRole)) \div (100 * 100)
        final == IF CapOf(b) # NULL /\ CapOf(b) < amount THEN CapOf(b) ELSE amount
    IN [kind |-> "result", estimatedPayout |-> final,
        breakdown |-> [baseValue |-> b.iskValue, operationMultiplier |-> mult,
                       isSpecialRole |-> b.isSpecialRole, finalAmount |-> final,
                       maxPayout |-> CapOf(b)]]

\* the calculation request: the body is parsed, then the figure computed
calculate(b) ==
    /\ body' = b
    /\ IF srpCalculateSchema(b)
       THEN response' = calculatePayout(b) /\ ret' = "ok"
       ELSE response' = NoResponse /\ ret' = "ValidationError"
    /\ UNCHANGED <<srpRequests, srpProcessLog, tx, now, limitsVars>>

\* the files the calculation is run against: at most one tier
CalcFiles == {f \in LimitsFiles : Len(f.value.tiers) <= 1}

NextCalc ==
    \/ \E file \in CalcFiles : initialize(file)
    \/ \E b \in CalculateBodies : calculate(b)

SpecCalc == Init /\ [][NextCalc]_vars

\* ---- submit ------------------------------------------------------------
IskAmounts == {-1, 0, 1}
FleetIds == {UndefinedNote, "", "fleet-1"}     \* omitted, empty, given

SubmitBodies ==
    {[kind |-> "submit", iskAmount |-> v, operationType |-> op, fleetId |-> f] :
        v \in IskAmounts, op \in OperationTypes, f \in FleetIds}

\* the schema without its .refine
srpRequestFormSchema_NoRefine(b) ==
    /\ b.iskAmount >= 1
    /\ b.operationType \in {"solo", "fleet"}

\* srpRequestFormSchema.safeParse(b).success: iskAmount is z.number().min(1),
\* operationType the enum, and a fleet body needs a non-empty fleetId
srpRequestFormSchema(b) ==
    /\ b.iskAmount >= 1
    /\ b.operationType \in {"solo", "fleet"}
    /\ b.operationType = "fleet" => (b.fleetId # UndefinedNote /\ b.fleetId # "")

\* the submit request: the body is parsed, then createSrpRequest runs
submit(c, b) ==
    /\ body' = b
    /\ UNCHANGED response
    /\ IF srpRequestFormSchema(b)
       THEN /\ Len(srpProcessLog) < MaxLog
            /\ FreeIds # {}
            /\ RunTx(c, CreateTx(NewId))
       ELSE /\ ret' = "ValidationError"
            /\ UNCHANGED <<srpRequests, srpProcessLog, tx, now, limitsVars>>

NextSubmit == \E c \in Clients, b \in SubmitBodies : submit(c, b)

SpecSubmit == Init /\ [][NextSubmit]_vars

\* ---- updateSrpRequest ---------------------------------------------------
Amounts == {NULL} \cup (0..MaxPayout)

\* the Partial<SrpRequest> values passed as data
UpdateData ==
    {[estimatedPayout |-> e] : e \in Amounts}
    \cup {[payoutAmount |-> p, estimatedPayout |-> e] : p \in {NULL}, e \in Amounts}

\* .set({...data}): the columns data names take its values
SetColumns(row, data) ==
    [col \in DOMAIN row |-> IF col \in DOMAIN data THEN data[col] ELSE row[col]]

\* one UPDATE outside any transaction, and no audit entry
updateSrpRequest(id, data) ==
    /\ IF id \in DOMAIN srpRequests
       THEN /\ srpRequests' = [srpRequests EXCEPT ![id] = SetColumns(@, data)]
            /\ ret' = "row"
            /\ UNCHANGED <<srpProcessLog, tx, now, limitsVars>>
       ELSE ReturnUndefined
    /\ UNCHANGED webVars

NextUpdate ==
    \/ \E c \in Clients : Len(srpProcessLog) < MaxTxLog /\ createSrpRequest(c)
    \/ \E c \in Clients, id \in ReqIds, status \in ReviewStatuses,
          note \in NoteArgs, payout \in PayoutArgs :
            Len(srpProcessLog) < MaxTxLog
               /\ reviewSrpRequest(c, id, status, note, payout)
    \/ \E c \in Clients, id \in ReqIds :
            Len(srpProcessLog) < MaxTxLog /\ markSrpRequestPaid(c, id)
    \/ \E id \in ReqIds, data \in UpdateData : updateSrpRequest(id, data)

SpecUpdate == Init /\ [][NextUpdate]_vars

\* ---- the clock and the dashboard stats ---------------------------------
\* an hour passes
Tick ==
    /\ now < HoursPerDay - 2 + MaxClock
    /\ now' = now + 1
    /\ UNCHANGED <<srpRequests, srpProcessLog, tx, ret, limitsVars, webVars>>

\* today.setHours(0, 0, 0, 0)
StartOfDay(t) == t - (t % HoursPerDay)

\* count of the `approved` entries of today whose request is approved now
approvedToday_StillApproved ==
    Cardinality({i \in 1..Len(srpProcessLog) :
                    /\ srpProcessLog[i].processType = "approved"
                    /\ srpProcessLog[i].occurredAt >= StartOfDay(now)
                    /\ srpRequests[srpProcessLog[i].srpRequestId].status = "approved"})

\* getDashboardStats().approvedToday: count of the entries with
\* processType = 'approved' and occurredAt >= today
approvedToday ==
    Cardinality({i \in 1..Len(srpProcessLog) :
                    /\ srpProcessLog[i].processType = "approved"
                    /\ srpProcessLog[i].occurredAt >= StartOfDay(now)})

\* the rows of created_log JOIN review_log ON srp_request_id
ReviewPairs ==
    {p \in (1..Len(srpProcessLog)) \X (1..Len(srpProcessLog)) :
        /\ srpProcessLog[p[1]].srpRequestId = srpProcessLog[p[2]].srpRequestId
        /\ srpProcessLog[p[1]].processType = "created"
        /\ srpProcessLog[p[2]].processType \in {"approved", "denied"}}

\* the sum of review_log.occurred_at - created_log.occurred_at, in hours
RECURSIVE SumHours(_)
SumHours(pairs) ==
    IF pairs = {} THEN 0
    ELSE LET p == CHOOSE q \in pairs : TRUE
         IN (srpProcessLog[p[2]].occurredAt - srpProcessLog[p[1]].occurredAt)
               + SumHours(pairs \ {p})

\* Math.round of n / d, for n >= 0 and d > 0
Round(n, d) == (2 * n + d) \div (2 * d)

\* getDashboardStats().averageProcessingHours: COALESCE(AVG(...), 0), rounded
averageProcessingHours ==
    IF ReviewPairs = {} THEN 0
    ELSE Round(SumHours(ReviewPairs), Cardinality(ReviewPairs))

\* one reviewer acts while the clock runs
NextClock ==
    \/ Tick
    \/ Len(srpProcessLog) < MaxClockLog /\ createSrpRequest("c1")
    \/ \E id \in ReqIds, status \in ReviewStatuses :
            Len(srpProcessLog) < MaxClockLog
               /\ reviewSrpRequest("c1", id, status, UndefinedNote, MaxPayout)
    \/ \E id \in ReqIds :
            Len(srpProcessLog) < MaxClockLog /\ markSrpRequestPaid("c1", id)

SpecClock == Init /\ [][NextClock]_vars

\* ---- reviews that carry a note ------------------------------------------
ReviewNotes == NoteArgs \cup {"wrong fit"}    \* omitted, empty, written

\* one reviewer decides with and without a note
NextNote ==
    \/ Len(srpProcessLog) < MaxTxLog /\ createSrpRequest("c1")
    \/ \E id \in ReqIds, status \in ReviewStatuses, note \in ReviewNotes,
          payout \in PayoutArgs :
            Len(srpProcessLog) < MaxTxLog
               /\ reviewSrpRequest("c1", id, status, note, payout)

SpecNote == Init /\ [][NextNote]_vars

\* ---- approval and payment of requests that carry an estimate -------------
\* one reviewer approves with a payout, an estimate is stored on the row,
\* and either caller records the payment
NextPaid ==
    \/ Len(srpProcessLog) < MaxTxLog /\ createSrpRequest("c1")
    \/ \E id \in ReqIds, e \in {0, MaxPayout} :
            updateSrpRequest(id, [estimatedPayout |-> e])
    \/ \E id \in ReqIds :
            Len(srpProcessLog) < MaxTxLog
               /\ reviewSrpRequest("c1", id, "approved", UndefinedNote, MaxPayout)
    \/ \E c \in Clients, id \in ReqIds :
            Len(srpProcessLog) < MaxTxLog /\ markSrpRequestPaid(c, id)

SpecPaid == Init /\ [][NextPaid]_vars

TypeOK ==
    /\ DOMAIN srpRequests \subseteq ReqIds
    /\ Len(srpProcessLog) <= MaxLog

\* ---- vocabulary of the properties ---------------------------------------
Exists(id) == id \in DOMAIN srpRequests

\* number of entries of request id with the given processType
CountKind(id, kind) ==
    Len(SelectSeq(LogsOf(id), LAMBDA e : e.processType = kind))

HasPaidEntry(id) == CountKind(id, "paid") > 0

LastEntry(id) == LogsOf(id)[Len(LogsOf(id))]

RowAndLogUnchanged ==
    /\ srpRequests' = srpRequests
    /\ srpProcessLog' = srpProcessLog

\* ---- C1 -----------------------------------------------------------------
\* C1: after any sequence of submit, review and markPaid operations, every
\* request has payoutAmount non-null if and only if its status is approved.
C1_PayoutIffApproved ==
    \A id \in DOMAIN srpRequests :
        (srpRequests[id].payoutAmount # NULL) <=> (srpRequests[id].status = "approved")

\* ---- C2 -----------------------------------------------------------------
\* the transaction of c carries an approve or deny decision that was issued
\* while the request was pending, and another reviewer's decision on that
\* request has committed since
LostRace(c) ==
    /\ tx[c].pc = "updated"
    /\ tx[c].op = "review"
    /\ tx[c].status \in {"approved", "denied"}
    /\ tx[c].seen = "pending"
    /\ srpRequests[tx[c].id].status \in {"approved", "denied"}

\* C2: when two reviewers race with approve or deny decisions on one pending
\* request, the call that comes second fails and writes nothing, so exactly
\* one call succeeds and the log holds exactly one decision entry.
C2_SecondReviewerFails ==
    [][\A c \in Clients :
         (LostRace(c) /\ tx'[c].pc = "idle")
            => (ret' = "throw" /\ RowAndLogUnchanged)]_vars

\* ---- C3 -----------------------------------------------------------------
\* C3: review with decision approve on a denied request fails and leaves the
\* request row and the audit log as they were.
C3_ApproveOnDeniedFails ==
    [][\A c \in Clients, id \in ReqIds, note \in NoteArgs, payout \in PayoutArgs :
         (/\ Exists(id)
          /\ srpRequests[id].status = "denied"
          /\ reviewSrpRequest(c, id, "approved", note, payout))
            => (ret' = "throw" /\ RowAndLogUnchanged)]_vars

\* ---- C4 -----------------------------------------------------------------
\* C4: markPaid on a request that is not approved fails: the status stays
\* and no `paid` entry is appended.
C4_MarkPaidNeedsApproved ==
    [][\A c \in Clients, id \in ReqIds :
         (/\ Exists(id)
          /\ srpRequests[id].status # "approved"
          /\ markSrpRequestPaid(c, id))
            => (ret' = "throw" /\ RowAndLogUnchanged)]_vars

\* ---- C5 -----------------------------------------------------------------
\* C5: totalPaidOut of a submitter is the sum of payoutAmount over exactly
\* the submitter's requests that have at least one `paid` entry, each
\* counted once.
C5_TotalPaidOutIsSumOverPaid ==
    \A u \in Clients :
        totalPaidOut(u) =
            SumPayout({id \in DOMAIN srpRequests :
                         srpRequests[id].seatUserId = u /\ HasPaidEntry(id)})

\* ---- C6 -----------------------------------------------------------------
\* C6: submit followed at once by getRequest on the returned id yields
\* status pending, payoutAmount null and exactly one audit entry, of kind
\* `created`.
C6_SubmitThenGet ==
    [][\A id \in ReqIds :
         (~Exists(id) /\ Exists(id)')
            => /\ ret' = "row"
               /\ getSrpRequest(id)' # {}
               /\ \A r \in getSrpRequest(id)' :
                     /\ r.status = "pending"
                     /\ r.payoutAmount = NULL
                     /\ Len(r.processLogs) = 1
                     /\ r.processLogs[1].processType = "created"]_vars

\* a request has just been created and nothing else has happened to it
C6_Witness ==
    /\ ret = "row"
    /\ srpProcessLog # <<>>
    /\ srpProcessLog[Len(srpProcessLog)].processType = "created"
    /\ Len(srpProcessLog) > 1

\* ---- C7 -----------------------------------------------------------------
\* the status that goes with an audit entry of the given processType
StatusWith(processType) ==
    IF processType = "created" THEN "pending"
    ELSE IF processType = "paid" THEN "approved"
    ELSE processType

\* the committed tables pair every row write with its audit entry
RowsMatchLog ==
    \A id \in ReqIds :
        /\ Exists(id) <=> LogsOf(id) # <<>>
        /\ Exists(id) => srpRequests[id].status = StatusWith(LastEntry(id).processType)

\* C7: the row write and the audit append of submit, review and markPaid
\* commit together: the committed tables never show a status without its
\* entry or an entry without its status, and a transaction that ends by
\* rolling back leaves both tables as they were.
C7_RowAndLogAtomic ==
    [][/\ RowsMatchLog'
       /\ \A c \in Clients :
            (tx[c].pc # "idle" /\ tx'[c].pc = "idle" /\ ret' = "throw")
               => RowAndLogUnchanged]_vars

\* a review has committed, and a later transaction on a request was rolled
\* back after its row write
C7_Witness ==
    /\ ret = "throw"
    /\ \E id \in DOMAIN srpRequests : Len(LogsOf(id)) >= 2

\* ---- C8 -----------------------------------------------------------------
\* the call review(id, approved, note, payout) by c is the one that last
\* succeeded on request id
JustApproved(c, id, note, payout) ==
    /\ Exists(id)
    /\ srpRequests[id].status = "approved"
    /\ srpRequests[id].payoutAmount = PayoutOrNull(payout)
    /\ LastEntry(id).processType = "approved"
    /\ LastEntry(id).byMainChar = c
    /\ LastEntry(id).note = NoteOrNull(note)

\* C8: repeating an approve call that has already succeeded adds no second
\* `approved` entry and leaves the row as the first call left it.
C8_ApproveRetryAddsNoEntry ==
    [][\A c \in Clients, id \in ReqIds, note \in NoteArgs, payout \in PayoutArgs :
         (/\ JustApproved(c, id, note, payout)
          /\ reviewSrpRequest(c, id, "approved", note, payout))
            => /\ CountKind(id, "approved")' = CountKind(id, "approved")
               /\ srpRequests' = srpRequests]_vars

\* ---- C9 -----------------------------------------------------------------
\* C9: the audit log is append-only: every step leaves each existing entry
\* in place and unchanged, so the log after a step extends the log before.
C9_LogAppendOnly ==
    [][/\ Len(srpProcessLog') >= Len(srpProcessLog)
       /\ SubSeq(srpProcessLog', 1, Len(srpProcessLog)) = srpProcessLog]_vars

\* some request has been written three times, twice with the same kind
C9_Witness ==
    \E id \in DOMAIN srpRequests :
        /\ Len(LogsOf(id)) >= 3
        /\ \E kind \in ReviewStatuses \cup {"paid"} : CountKind(id, kind) >= 2

\* ---- C10 ----------------------------------------------------------------
\* denied, or approved with a `paid` entry
Terminal(id) ==
    /\ Exists(id)
    /\ \/ srpRequests[id].status = "denied"
       \/ srpRequests[id].status = "approved" /\ HasPaidEntry(id)

\* C10: once a request is terminal no later call changes its status or
\* payoutAmount or appends an audit entry for it.
C10_TerminalIsFinal ==
    [][\A id \in ReqIds :
         Terminal(id) => /\ srpRequests'[id] = srpRequests[id]
                         /\ LogsOf(id)' = LogsOf(id)]_vars

\* ---- C11 ----------------------------------------------------------------
\* C11: review with decision approve and no payout value fails and leaves
\* the request's status, payoutAmount and audit log unchanged.
C11_ApproveWithoutPayoutFails ==
    [][\A c \in Clients, id \in ReqIds, note \in NoteArgs :
         (/\ Exists(id)
          /\ reviewSrpRequest(c, id, "approved", note, Undefined))
            => (ret' = "throw" /\ RowAndLogUnchanged)]_vars

\* ---- C12 ----------------------------------------------------------------
\* the file is absent, is not JSON, or holds no list of well-formed tiers
Malformed(file) ==
    \/ ~file.exists
    \/ ~file.json
    \/ file.value.kind # "config"
    \/ \E i \in DOMAIN file.value.tiers : ~file.value.tiers[i].iterable

\* C12: loading the tier table from an absent or malformed source fails
\* with an error (whatever its class); it never returns normally.
C12_BadSourceFails ==
    [][Malformed(limitsFile') => ret' \in {"SyntaxError", "TypeError"}]_vars

\* ---- C13 ----------------------------------------------------------------
\* the index of the last tier of tiers that lists group g
LastTierOf(tiers, g) ==
    CHOOSE i \in DOMAIN tiers :
        /\ g \in tiers[i].classes
        /\ \A j \in DOMAIN tiers : g \in tiers[j].classes => j <= i

Listed(tiers) == UNION {tiers[i].classes : i \in DOMAIN tiers}

\* C13: after any sequence of loads the two maps and isLoaded reflect one
\* config version, the one in limitsData: every entry of the maps is an
\* entry of a tier of that version, an unloaded table has no entries, a
\* load that ran to its end leaves exactly the mapping of its file, and
\* loading a file twice leaves what loading it once leaves.
C13_LoadReplacesWholesale ==
    /\ DOMAIN classToMaxPayout = DOMAIN classToTier
    /\ \A g \in DOMAIN classToMaxPayout :
          \E i \in DOMAIN limitsData.tiers :
             /\ g \in limitsData.tiers[i].classes
             /\ classToMaxPayout[g] = limitsData.tiers[i].maxPayout
             /\ classToTier[g] = limitsData.tiers[i].name
    /\ ~isLoaded => classToMaxPayout = <<>>
    /\ (ret = "ok" /\ limitsFile.exists) =>
          /\ limitsData = limitsFile.value
          /\ DOMAIN classToMaxPayout = Listed(limitsData.tiers)
          /\ \A g \in DOMAIN classToMaxPayout :
                LET t == limitsData.tiers[LastTierOf(limitsData.tiers, g)]
                IN classToMaxPayout[g] = t.maxPayout /\ classToTier[g] = t.name
    /\ \A file \in LimitsFiles :
          LET once == Initialized(file, limitsData, classToMaxPayout, classToTier)
          IN Initialized(file, once.limitsData, once.classToMaxPayout,
                         once.classToTier) = once

\* a table loaded from a file with two tiers has been reloaded while the
\* file was absent
C13_Witness ==
    /\ ~limitsFile.exists
    /\ isLoaded
    /\ Len(limitsData.tiers) >= 2
    /\ DOMAIN classToMaxPayout = Classes

\* ---- C14 ----------------------------------------------------------------
\* C14: a lookup for a group that no tier of the loaded version lists, or
\* made while nothing is loaded, returns null from getSoloMaxPayout and
\* from getTierName; a group whose cap is 0 gets 0 and its tier's name.
C14_LookupNotFoundIsNull ==
    \A g \in Classes :
        /\ (~isLoaded \/ g \notin Listed(limitsData.tiers)) =>
              (getSoloMaxPayout(g) = NULL /\ getTierName(g) = NullName)
        /\ (g \in DOMAIN classToMaxPayout /\ classToMaxPayout[g] = 0) =>
              (getSoloMaxPayout(g) = 0 /\ getTierName(g) # NullName)

\* a loaded table holds a group with cap 0 and lacks another group
C14_Witness ==
    /\ isLoaded
    /\ \E g \in DOMAIN classToMaxPayout : classToMaxPayout[g] = 0
    /\ \E g \in Classes : g \notin DOMAIN classToMaxPayout

\* ---- C15 ----------------------------------------------------------------
\* response holds, for the calculation request in body, the rounded-down
\* product lowered to the cap the loaded table has for the body's group
FigureIsCappedFloor ==
    LET b == body
        f == response.breakdown.finalAmount
        x == b.iskValue * operationMultiplier(b.operationType)
                * specialRoleBonus(b.isSpecialRole)
        hasCap == b.groupName \in DOMAIN classToMaxPayout
        cap == classToMaxPayout[b.groupName]
    IN /\ IF hasCap /\ (cap + 1) * 10000 <= x
          THEN f = cap
          ELSE f * 10000 <= x /\ x < (f + 1) * 10000
       /\ (/\ b.iskValue = 300 /\ b.operationType = "solo" /\ ~b.isSpecialRole
           /\ hasCap /\ cap = 100) => f = 100
       /\ (/\ b.iskValue = 80 /\ b.operationType = "fleet" /\ b.isSpecialRole
           /\ ~hasCap) => f = 96

\* C15: the calculator returns finalAmount = floor(claimedValue x operation
\* multiplier x special role bonus), lowered to the group's cap when the
\* group has a tier entry and left as it is when it has none: cap 100,
\* value 300, solo, no special role gives 100; no entry, value 80, fleet,
\* special role gives 96.
C15_FinalAmountIsCappedFloor ==
    [][(webVars' # webVars /\ response'.kind = "result") => FigureIsCappedFloor']_vars

\* value 300, solo, no special role, for a group whose cap is 100
C15_Witness ==
    /\ response.kind = "result"
    /\ body.iskValue = 300
    /\ body.operationType = "solo"
    /\ ~body.isSpecialRole
    /\ body.groupName \in DOMAIN classToMaxPayout
    /\ classToMaxPayout[body.groupName] = 100
    /\ response.breakdown.maxPayout = 100
    /\ response.breakdown.finalAmount = 100

BadSubmit(b) ==
    \/ b.iskAmount <= 0
    \/ b.operationType = "fleet" /\ (b.fleetId = UndefinedNote \/ b.fleetId = "")

C18_EstimatedPayoutSetOnce ==
    [][\A id \in DOMAIN srpRequests :
         srpRequests'[id].estimatedPayout = srpRequests[id].estimatedPayout]_vars

\* ---- C19 ----------------------------------------------------------------
\* the requests with an `approved` or `denied` entry
Decided ==
    {id \in DOMAIN srpRequests :
        CountKind(id, "approved") + CountKind(id, "denied") > 0}

\* occurredAt of the first entry of request id whose kind is in kinds
FirstAt(id, kinds) ==
    LET l == SelectSeq(LogsOf(id), LAMBDA e : e.processType \in kinds)
    IN l[1].occurredAt

RECURSIVE SumFirstDecisionHours(_)
SumFirstDecisionHours(ids) ==
    IF ids = {} THEN 0
    ELSE LET id == CHOOSE i \in ids : TRUE
         IN (FirstAt(id, {"approved", "denied"}) - FirstAt(id, {"created"}))
               + SumFirstDecisionHours(ids \ {id})

\* C19: averageProcessingHours is the mean, over the decided requests, of
\* the time from the first `created` entry to the first `approved` or
\* `denied` entry: one term for each decided request, none for the others.
C19_AverageOverDecidedRequests ==
    Decided # {} =>
        averageProcessingHours * Cardinality(Decided) = SumFirstDecisionHours(Decided)

C21_EntriesReadAscending ==
    \A id \in DOMAIN srpRequests : getSrpProcessLogs(id) = {LogsOf(id)}

\* ---- C22 ----------------------------------------------------------------
\* C22: an approve with payout p >= 0 that succeeds on a pending request
\* leaves status approved and payoutAmount p, for p = 0 too, and appends
\* exactly one `approved` entry.
C22_ApproveSetsPayout ==
    [][\A c \in Clients, id \in ReqIds, note \in NoteArgs, p \in 0..MaxPayout :
         (/\ Exists(id)
          /\ srpRequests[id].status = "pending"
          /\ reviewSrpRequest(c, id, "approved", note, p)
          /\ ret' = "row")
            => /\ srpRequests'[id].status = "approved"
               /\ srpRequests'[id].payoutAmount = p
               /\ CountKind(id, "approved")' = CountKind(id, "approved") + 1
               /\ Len(srpProcessLog') = Len(srpProcessLog) + 1]_vars

\* ---- C23 ----------------------------------------------------------------
\* C23: a deny of a pending request with a non-empty note leaves status
\* denied and payoutAmount null, whatever payout was passed, and appends
\* one `denied` entry carrying the note; with an empty or missing note the
\* call fails and changes neither the row nor the audit log.
C23_DenyNeedsNote ==
    [][\A id \in ReqIds, note \in ReviewNotes, payout \in PayoutArgs :
         (/\ Exists(id)
          /\ srpRequests[id].status = "pending"
          /\ reviewSrpRequest("c1", id, "denied", note, payout))
            => IF note = UndefinedNote \/ note = ""
               THEN ret' = "throw" /\ RowAndLogUnchanged
               ELSE ret' = "row" =>
                      /\ srpRequests'[id].status = "denied"
                      /\ srpRequests'[id].payoutAmount = NULL
                      /\ srpProcessLog' = Append(srpProcessLog, LastEntry(id)')
                      /\ LastEntry(id)'.processType = "denied"
                      /\ LastEntry(id)'.note = note]_vars

\* ---- C24 ----------------------------------------------------------------
\* C24: a markPaid that succeeds on an approved request appends exactly one
\* `paid` entry, with the given actor, and leaves the request's status,
\* payoutAmount and estimatedPayout as they were.
C24_MarkPaidKeepsRow ==
    [][\A c \in Clients, id \in ReqIds :
         (/\ Exists(id)
          /\ srpRequests[id].status = "approved"
          /\ ret' = "row"
          /\ markSrpRequestPaid(c, id))
            => /\ srpRequests'[id] = srpRequests[id]
               /\ srpProcessLog' = Append(srpProcessLog, LastEntry(id)')
               /\ LastEntry(id)'.processType = "paid"
               /\ LastEntry(id)'.byMainChar = c]_vars

\* an approved request with a payout and an estimate has been marked paid
C24_Witness ==
    /\ ret = "row"
    /\ \E id \in DOMAIN srpRequests :
          /\ srpRequests[id].status = "approved"
          /\ srpRequests[id].payoutAmount # NULL
          /\ srpRequests[id].estimatedPayout # NULL
          /\ CountKind(id, "approved") = 1
          /\ LastEntry(id).processType = "paid"

\* ---- C25 ----------------------------------------------------------------
\* C25: mark-processing on an approved or denied request fails and changes
\* nothing; on a pending or processing request it leaves status processing
\* and payoutAmount null and appends one `processing` entry.
C25_ProcessingOnlyBeforeDecision ==
    [][\A c \in Clients, id \in ReqIds, note \in NoteArgs, payout \in PayoutArgs :
         (/\ Exists(id)
          /\ reviewSrpRequest(c, id, "processing", note, payout))
            => IF srpRequests[id].status \in {"approved", "denied"}
               THEN ret' = "throw" /\ RowAndLogUnchanged
               ELSE ret' = "row" =>
                      /\ srpRequests'[id].status = "processing"
                      /\ srpRequests'[id].payoutAmount = NULL
                      /\ CountKind(id, "processing")' = CountKind(id, "processing") + 1]_vars

\* ---- C26 ----------------------------------------------------------------
\* the tiers of the loaded version that list group g
TiersListing(g) ==
    {i \in DOMAIN limitsData.tiers : g \in limitsData.tiers[i].classes}

\* C26: both lookups of a group answer from one tier of the loaded version,
\* and after a load that ran to its end that tier is the last one listing
\* the group.
C26_LastTierWins ==
    \A g \in Classes :
        /\ getTierName(g) # NullName =>
              \E i \in TiersListing(g) :
                 /\ getSoloMaxPayout(g) = limitsData.tiers[i].maxPayout
                 /\ getTierName(g) = limitsData.tiers[i].name
        /\ (ret = "ok" /\ limitsFile.exists /\ TiersListing(g) # {}) =>
              LET last == CHOOSE i \in TiersListing(g) :
                              \A j \in TiersListing(g) : j <= i
              IN /\ getSoloMaxPayout(g) = limitsData.tiers[last].maxPayout
                 /\ getTierName(g) = limitsData.tiers[last].name

\* a file listing one group in two tiers with different caps was loaded
C26_Witness ==
    /\ ret = "ok"
    /\ limitsFile.exists
    /\ \E g \in Classes :
          /\ Cardinality(TiersListing(g)) >= 2
          /\ \E i, j \in TiersListing(g) :
                limitsData.tiers[i].maxPayout # limitsData.tiers[j].maxPayout

\* ---- C27 ----------------------------------------------------------------
\* the row and the audit entries of request id are the same after the step
SameRequest(id) ==
    /\ Exists(id)' <=> Exists(id)
    /\ Exists(id) => srpRequests'[id] = srpRequests[id]
    /\ LogsOf(id)' = LogsOf(id)

\* C27: operations on one request do not affect another: a transaction
\* that ends leaves the row and the entries of every other request as they
\* were, a step that ends no transaction writes nothing, what a transaction
\* in flight is about to write is not changed by the end of another, and a
\* transaction starts to wait only when another holds the row of the same
\* request.
C27_RequestsIndependent ==
    [][/\ \A c \in Clients :
            (tx[c].pc # "idle" /\ tx'[c].pc = "idle") =>
                /\ \A id \in ReqIds \ {tx[c].id} : SameRequest(id)
                /\ \A d \in Clients \ {c} :
                      tx[d].pc = "updated" =>
                         /\ tx'[d] = tx[d]
                         /\ WrittenRow(d, tx[d])' = WrittenRow(d, tx[d])
                         /\ LogEntry(d, tx[d])' = LogEntry(d, tx[d])
       /\ (\A c \in Clients : tx[c].pc = "idle" \/ tx'[c].pc # "idle")
             => RowAndLogUnchanged
       /\ \A c \in Clients :
            (tx[c].pc # "waiting" /\ tx'[c].pc = "waiting") =>
               \E d \in Clients \ {c} :
                  tx[d].pc = "updated" /\ tx[d].id = tx'[c].id]_vars

\* a review of one request has committed while a transaction on another
\* request is in flight
C27_Witness ==
    /\ ret = "row"
    /\ \E c, d \in Clients :
          /\ tx[c].pc = "idle"
          /\ tx[d].pc = "updated"
          /\ \E id \in DOMAIN srpRequests :
                /\ id # tx[d].id
                /\ Len(LogsOf(id)) >= 2
                /\ LastEntry(id).byMainChar = c

\* ---- C28 ----------------------------------------------------------------
\* the latest entry of request id that is not a `paid` entry
LastNonPaid(id) ==
    LET l == SelectSeq(LogsOf(id), LAMBDA e : e.processType # "paid")
    IN l[Len(l)]

\* C28: the status of every request is pending when its latest entry other
\* than `paid` is `created`, and the kind of that entry otherwise.
C28_StatusAgreesWithLog ==
    \A id \in DOMAIN srpRequests :
        srpRequests[id].status =
            IF LastNonPaid(id).processType = "created" THEN "pending"
            ELSE LastNonPaid(id).processType

\* ---- C29 ----------------------------------------------------------------
\* C29: every `paid` entry of a request comes after an `approved` entry of
\* that request, and no `denied` entry of the request lies after that
\* `approved` entry.
C29_PaidFollowsApproved ==
    \A id \in DOMAIN srpRequests :
        LET l == LogsOf(id)
        IN \A k \in DOMAIN l :
              l[k].processType = "paid" =>
                 \E j \in 1..(k - 1) :
                    /\ l[j].processType = "approved"
                    /\ \A m \in (j + 1)..Len(l) : l[m].processType # "denied"

\* ---- C30 ----------------------------------------------------------------
\* request id and its `created` entry exist together, the entry is the only
\* one of its kind and the earliest of the request, and the listing derives
\* its time as the creation time
CreatedOnce(id) ==
    IF ~Exists(id) THEN LogsOf(id) = <<>>
    ELSE /\ CountKind(id, "created") = 1
         /\ LogsOf(id)[1].processType = "created"
         /\ \A i \in DOMAIN LogsOf(id) :
               LogsOf(id)[i].occurredAt >= LogsOf(id)[1].occurredAt
         /\ createdAt(id) = {LogsOf(id)[1].occurredAt}

\* C30: every request that exists has exactly one `created` entry, written
\* with the row, and it is the earliest entry of the request; the creation
\* time derived from the log is defined and no later step changes it.
C30_OneCreatedEntry ==
    [][\A id \in ReqIds :
         /\ CreatedOnce(id)'
         /\ Exists(id) => createdAt(id)' = createdAt(id)]_vars

\* a request created yesterday has been written twice since, today
C30_Witness ==
    \E id \in DOMAIN srpRequests :
        /\ Len(LogsOf(id)) >= 3
        /\ LogsOf(id)[1].occurredAt < StartOfDay(now)
        /\ LastEntry(id).occurredAt >= StartOfDay(now)

====
